---- MODULE Spec2Model ----
(***************************************************************************)
(* The claim-processing workflow of backend_logic.py, driven by the        *)
(* Streamlit form of frontend_app.py: a LangGraph StateGraph of five nodes *)
(* (upload, extract_dl, extract_claim, extract_car, compare_email) over a  *)
(* shared run state, plus the persistent driver's-license table.           *)
(*                                                                         *)
(* Python values are tagged records: None, str (a sequence of characters   *)
(* or of reply tokens), int, bool, dict (a function from keys to values)   *)
(* and list.                                                               *)
(***************************************************************************)
EXTENDS Integers, Sequences, FiniteSets, TLC

VARIABLES
    pc,        \* node the graph runs next: "idle", a node name, "done", "failed"
    state,     \* the graph's run state: a function from the keys set so far
    table,     \* rows of the persistent license table
    result,    \* what run_claim_processing_workflow returned to the form
    ui,        \* what the form shows: "form", "warning", "success", "error"
    executed,  \* history: the nodes started in this run, in order
    updates,   \* history: the partial update each completed node returned
    calls,     \* history: the table calls of this run (fetch / merge)
    io         \* history: the external replies the last node consumed

vars == <<pc, state, table, result, ui, executed, updates, calls, io>>

----------------------------------------------------------------------------
(* Bounds of the model *)

\* longest license-number string the extraction service returns
MaxLicLen == 2
\* longest model reply, in tokens
MaxReplyLen == 3

----------------------------------------------------------------------------
(* Python values *)

NoneV == [t |-> "none"]
PyStr(s) == [t |-> "str", s |-> s]
PyInt(n) == [t |-> "int", n |-> n]
PyBool(b) == [t |-> "bool", b |-> b]
PyDict(m) == [t |-> "dict", m |-> m]
PyList(xs) == [t |-> "list", xs |-> xs]

EmptyMap == [k \in {} |-> NoneV]

\* Python truthiness (bool(v), `if v`, `not v`)
Truthy(v) ==
    CASE v.t = "none" -> FALSE
      [] v.t = "str"  -> v.s # <<>>
      [] v.t = "int"  -> v.n # 0
      [] v.t = "bool" -> v.b
      [] v.t = "dict" -> DOMAIN v.m # {}
      [] v.t = "list" -> v.xs # <<>>

\* dict.get(key, default)
Get(m, key, default) == IF key \in DOMAIN m THEN m[key] ELSE default

\* a or b
Or(a, b) == IF Truthy(a) THEN a ELSE b

SeqsUpTo(S, n) == UNION {[1..k -> S] : k \in 0..n}

Min(S) == CHOOSE x \in S : \A y \in S : x <= y
Max(S) == CHOOSE x \in S : \A y \in S : x >= y

IsPrefix(s, t) == Len(s) <= Len(t) /\ SubSeq(t, 1, Len(s)) = s

----------------------------------------------------------------------------
(* Helpers *)

safe_extract(field) ==
    IF ~Truthy(field) THEN NoneV
    ELSE IF field.t = "list" THEN
        LET hits == {i \in 1..Len(field.xs) :
                        /\ field.xs[i].t = "dict"
                        /\ "value" \in DOMAIN field.xs[i].m}
        IN  IF hits # {} THEN field.xs[Min(hits)].m["value"] ELSE field.xs[1]
    ELSE IF field.t = "dict" THEN Get(field.m, "value", NoneV)
    ELSE field

----------------------------------------------------------------------------
(* The license number check: re.match(r'^[\w-]+$', license_number) *)

\* characters of the model: a letter, a digit, the hyphen, the underscore,
\* and four characters outside [\w-]: space, slash, quote, newline
LicChars == {"A", "7", "-", "_", " ", "/", "'", "\n"}

\* the class [\w-]
WordOrHyphen(c) == c \in {"A", "7", "_", "-"}

\* ^[\w-]+$ without re.MULTILINE: `$` matches at the end of the string and
\* also just before a newline that ends the string
LicensePatternMatches(s) ==
    LET e == IF Len(s) > 0 /\ s[Len(s)] = "\n" THEN Len(s) - 1 ELSE Len(s)
    IN  e >= 1 /\ \A i \in 1..e : WordOrHyphen(s[i])

----------------------------------------------------------------------------
(* The persistent license table: a set of rows, each a dl_record_full *)

\* session.table(TABLE_NAME).filter("LICENSE_NUMBER = '<n>'").collect()
TableFilter(tbl, number) == {r \in tbl : r.LICENSE_NUMBER = number}

\* TableMerge as a plain insert: a matched row is not updated in place
TableMergeInsert(tbl, rec) == tbl \cup {rec}

\* target.merge(df_new, target.LICENSE_NUMBER == df_new.LICENSE_NUMBER,
\*              [WhenMatched.update(rec), WhenNotMatched.insert(rec)])
TableMerge(tbl, rec) ==
    IF TableFilter(tbl, rec.LICENSE_NUMBER) # {}
    THEN {IF r.LICENSE_NUMBER = rec.LICENSE_NUMBER THEN rec ELSE r : r \in tbl}
    ELSE tbl \cup {rec}

----------------------------------------------------------------------------
(* Nodes.  Each is an operator from the run state and the external replies  *)
(* it consumes to an outcome: whether it raised, the partial update it      *)
(* returned, the table it left and the table calls it made.                 *)

Raised(tbl, cs) == [raised |-> TRUE, update |-> EmptyMap, table |-> tbl, calls |-> cs]
Returned(upd, tbl, cs) == [raised |-> FALSE, update |-> upd, table |-> tbl, calls |-> cs]

\* the file name after the last dot
Ext(path) == path[Len(path)]

upload_all(st, stageOk, tbl) ==
    LET files == Get(st, "files", NoneV) IN
    IF ~Truthy(files) THEN Raised(tbl, <<>>)          \* ValueError
    ELSE IF ~stageOk THEN Raised(tbl, <<>>)           \* open() / session.file.put fails
    ELSE Returned(
            [dl_path    |-> <<"uuid_dl", files.m.dl.ext>>,
             claim_path |-> <<"uuid_claim", files.m.claim.ext>>,
             car_path   |-> <<"uuid_car", files.m.car.ext>>,
             car_local  |-> <<"tmp/uuid_car", files.m.car.ext>>,
             steps      |-> <<"Uploaded">>],
            tbl, <<>>)

\* the record extract_dl builds from the PREDICT result (the date, sex,
\* height and endorsement columns are extracted the same way and are read by
\* no branch of the workflow)
dl_record_full(reply) ==
    [FULL_NAME      |-> Or(safe_extract(Get(reply.m, "name", NoneV)), PyStr(<<"Unknown">>)),
     LICENSE_NUMBER |-> safe_extract(Get(reply.m, "license_no", NoneV))]

FetchCall(number, ok) == [op |-> "fetch", number |-> number, ok |-> ok]
MergeCall(number, ok) == [op |-> "merge", number |-> number, ok |-> ok]

\* `if license_number:` followed by the re.match check: TRUE when the number
\* passes, FALSE when the check raises (TypeError for a value that is no
\* string, ValueError for a string the pattern rejects)
NumberAccepted(number) ==
    number.t = "str" /\ LicensePatternMatches(number.s)

\* InvalidNumber with the check's failure handled like a missing number
InvalidNumberSkipped(rec, tbl) ==
    Returned([dl |-> PyDict(rec), table_row |-> NoneV,
              steps |-> <<"DL Extracted (Not Stored: Invalid License Number)">>],
             tbl, <<>>)

\* the outcome when the check raises: nothing is caught, the node raises
InvalidNumber(rec, tbl) == Raised(tbl, <<>>)

\* FetchRow without the try/except: a failing lookup raises
FetchRowUnguarded(tbl, number, fetchOk) ==
    LET found == TableFilter(tbl, number) IN
    [raised |-> ~fetchOk,
     row    |-> IF found # {} THEN PyDict(CHOOSE r \in found : TRUE) ELSE NoneV]

\* the try/except around the table lookup: the row found, NoneV when there
\* is none or the lookup failed; raised is never set, the except swallows
FetchRow(tbl, number, fetchOk) ==
    LET found == TableFilter(tbl, number) IN
    [raised |-> FALSE,
     row    |-> IF fetchOk /\ found # {}
                THEN PyDict(CHOOSE r \in found : TRUE) ELSE NoneV]

\* MissingNumber without the early return: the merge runs with no key
MissingNumberMerged(rec, tbl) ==
    Returned([dl |-> PyDict(rec), table_row |-> NoneV,
              steps |-> <<"Driver's License Extracted & Stored">>],
             tbl \cup {rec}, <<MergeCall(rec.LICENSE_NUMBER, TRUE)>>)

\* `if not dl_record_full["LICENSE_NUMBER"]`: return without merging
MissingNumber(rec, tbl) ==
    Returned([dl |-> PyDict(rec), table_row |-> NoneV,
              steps |-> <<"DL Extracted (Not Stored: Missing License Number)">>],
             tbl, <<>>)

\* extract_dl with the merge placed before the lookup
extract_dl_merge_first(st, reply, fetchOk, mergeOk, tbl) ==
    IF reply.t # "dict" THEN Raised(tbl, <<>>)
    ELSE
    LET rec     == dl_record_full(reply)
        number  == rec.LICENSE_NUMBER
        merged  == IF mergeOk THEN TableMerge(tbl, rec) ELSE tbl
        fetched == FetchRow(merged, number, fetchOk)
    IN
    IF ~Truthy(number) THEN MissingNumber(rec, tbl)
    ELSE IF ~NumberAccepted(number) THEN InvalidNumber(rec, tbl)
    ELSE Returned([dl |-> PyDict(rec), table_row |-> fetched.row,
                   steps |-> <<"Driver's License Extracted & Stored">>],
                  merged,
                  <<MergeCall(number, mergeOk), FetchCall(number, fetchOk)>>)

\* reply: the parsed PREDICT result, or NoneV when the query raised
extract_dl(st, reply, fetchOk, mergeOk, tbl) ==
    IF reply.t # "dict" THEN Raised(tbl, <<>>)        \* RuntimeError
    ELSE
    LET rec     == dl_record_full(reply)
        number  == rec.LICENSE_NUMBER
        fetched == FetchRow(tbl, number, fetchOk)
    IN
    IF ~Truthy(number) THEN MissingNumber(rec, tbl)
    ELSE IF ~NumberAccepted(number) THEN InvalidNumber(rec, tbl)
    ELSE IF fetched.raised THEN Raised(tbl, <<FetchCall(number, fetchOk)>>)
    ELSE Returned([dl |-> PyDict(rec), table_row |-> fetched.row,
                   steps |-> <<"Driver's License Extracted & Stored">>],
                  IF mergeOk THEN TableMerge(tbl, rec) ELSE tbl,
                  <<FetchCall(number, fetchOk), MergeCall(number, mergeOk)>>)

----------------------------------------------------------------------------
(* extract_claim: texts are sequences of the tokens "Color:" (the literal,  *)
(* in any case), " " (a blank), "," , "\n" and "x" (any other character).   *)

IsSpace(c) == c \in {" ", "\n"}

\* str.strip()
RECURSIVE Strip(_)
Strip(s) ==
    IF s = <<>> THEN s
    ELSE IF IsSpace(s[1]) THEN Strip(Tail(s))
    ELSE IF IsSpace(s[Len(s)]) THEN Strip(SubSeq(s, 1, Len(s) - 1))
    ELSE s

\* (,|$) at position q: a comma, the end of the text, or a final newline
CommaOrEnd(text, q) ==
    \/ q = Len(text) + 1
    \/ q <= Len(text) /\ text[q] = ","
    \/ q = Len(text) /\ text[q] = "\n"

\* the lengths k of a group (.+?) starting at j that (,|$) can follow
GroupLens(text, j) ==
    {k \in 1..(Len(text) - j + 1) :
        /\ \A q \in j..(j + k - 1) : text[q] # "\n"
        /\ CommaOrEnd(text, j + k)}

\* the match of Color:\s*(.+?)(,|$) that starts at token i, as <<j, k>>
\* (group 1 is text[j .. j+k-1]), or <<>>: \s* is greedy and gives blanks
\* back, the group is lazy
MatchAt(text, i) ==
    LET p  == i + 1
        ws == {w \in 0..(Len(text) - i) :
                  \A q \in p..(p + w - 1) : IsSpace(text[q])}
        ok == {w \in ws : GroupLens(text, p + w) # {}}
    IN  IF text[i] # "Color:" \/ ok = {} THEN <<>>
        ELSE <<p + Max(ok), Min(GroupLens(text, p + Max(ok)))>>

\* re.search(r"Color:\s*(.+?)(,|$)", text, re.IGNORECASE): group(1), or NoneV
ColorSearch(text) ==
    LET starts == {i \in 1..Len(text) : MatchAt(text, i) # <<>>} IN
    IF starts = {} THEN NoneV
    ELSE LET m == MatchAt(text, Min(starts))
         IN  PyStr(SubSeq(text, m[1], m[1] + m[2] - 1))

\* result.get(field, [{}])[0].get("value", ""): the text, or NoneV where
\* the expression (or re.search on its value) raises
ClaimText(res, field) ==
    LET v == Get(res, field, PyList(<<PyDict(EmptyMap)>>)) IN
    IF v.t # "list" \/ v.xs = <<>> THEN NoneV        \* TypeError, KeyError, IndexError
    ELSE IF v.xs[1].t # "dict" THEN NoneV            \* AttributeError
    ELSE LET text == Get(v.xs[1].m, "value", PyStr(<<>>))
         IN  IF text.t # "str" THEN NoneV            \* TypeError from re.search
             ELSE text

ColorField(group) == PyList(<<PyDict([value |-> PyStr(Strip(group.s))])>>)

\* result with result["car_color"] = value
SetKey(res, key, value) ==
    [k \in DOMAIN res \cup {key} |-> IF k = key THEN value ELSE res[k]]

\* reply: the parsed PREDICT result, or NoneV when the query raised
extract_claim(st, reply, tbl) ==
    IF reply.t # "dict" THEN Raised(tbl, <<>>)
    ELSE
    LET res == reply.m
        d   == ClaimText(res, "description")
        dm  == IF d.t = "none" THEN NoneV ELSE ColorSearch(d.s)
        v   == ClaimText(res, "vehicle")
        vm  == IF v.t = "none" THEN NoneV ELSE ColorSearch(v.s)
    IN
    IF d.t = "none" THEN Raised(tbl, <<>>)
    ELSE IF dm.t # "none"
    THEN Returned([claim |-> PyDict(SetKey(res, "car_color", ColorField(dm))),
                   steps |-> <<"Claim Extracted">>], tbl, <<>>)
    ELSE IF v.t = "none" THEN Raised(tbl, <<>>)
    ELSE IF vm.t # "none"
    THEN Returned([claim |-> PyDict(SetKey(res, "car_color", ColorField(vm))),
                   steps |-> <<"Claim Extracted">>], tbl, <<>>)
    ELSE Returned([claim |-> PyDict(res), steps |-> <<"Claim Extracted">>], tbl, <<>>)

----------------------------------------------------------------------------
(* Model replies: raw_text is a sequence of tokens, each an opening brace,  *)
(* a closing brace, a run of prose, or the text of a JSON member list       *)
(* ("k": v, ...) together with the mapping it denotes.                      *)

LB == [k |-> "lb"]
RB == [k |-> "rb"]
Prose == [k |-> "w"]
Members(m) == [k |-> "mem", m |-> m]

\* re.search(r"\{.*\}", raw_text, re.DOTALL): group(0), or <<>> for no match.
\* Greedy: from the first opening brace to the last closing brace.
FindSpan(raw) ==
    LET lbs == {i \in 1..Len(raw) : raw[i].k = "lb"}
        rbs == {i \in 1..Len(raw) : raw[i].k = "rb"}
    IN  IF lbs # {} /\ rbs # {} /\ Max(rbs) > Min(lbs)
        THEN SubSeq(raw, Min(lbs), Max(rbs)) ELSE <<>>

\* json.loads of a span: the dict, or NoneV for JSONDecodeError
json_loads(span) ==
    IF Len(span) = 2 THEN PyDict(EmptyMap)
    ELSE IF Len(span) = 3 /\ span[2].k = "mem" THEN PyDict(span[2].m)
    ELSE NoneV

\* get_image_mime(ext) is not None
SupportedImage(ext) == ext \in {"jpg", "jpeg", "png", "gif", "webp"}

\* extract_car with match.group(0) taken and parsed unguarded
extract_car_strict(st, reply, tbl) ==
    IF ~SupportedImage(Ext(st["car_local"])) THEN Raised(tbl, <<>>)
    ELSE IF reply.t # "str" THEN Raised(tbl, <<>>)
    ELSE IF FindSpan(reply.s) = <<>> THEN Raised(tbl, <<>>)
    ELSE IF json_loads(FindSpan(reply.s)).t # "dict" THEN Raised(tbl, <<>>)
    ELSE Returned([car |-> json_loads(FindSpan(reply.s)),
                   steps |-> <<"Car Analyzed">>], tbl, <<>>)

\* reply: raw_text of the model's answer, or NoneV when invoke_model raised
extract_car(st, reply, tbl) ==
    IF ~SupportedImage(Ext(st["car_local"])) THEN Raised(tbl, <<>>)   \* ValueError
    ELSE IF reply.t # "str" THEN Raised(tbl, <<>>)
    ELSE
    LET span   == FindSpan(reply.s)
        parsed == IF span = <<>> THEN NoneV ELSE json_loads(span)
        car    == IF parsed.t = "dict" THEN parsed
                  ELSE PyDict([raw_output |-> reply])
    IN  Returned([car |-> car, steps |-> <<"Car Analyzed">>], tbl, <<>>)

----------------------------------------------------------------------------
(* normalize_comparison and the decision of compare_and_email *)

SchemaKeys == {"name", "license_no", "address", "car_make", "car_model",
               "car_color", "damage_details", "license_validity"}

Subkeys(key) ==
    CASE key \in {"name"} -> {"claim_table"}
      [] key \in {"license_no", "address"} -> {"claim_table", "dl_table"}
      [] key \in {"car_make", "car_model", "car_color", "damage_details"} -> {"claim_car"}
      [] OTHER -> {}

\* normalize_comparison with the values copied over the defaults uncoerced
normalize_comparison_loose(data) ==
    IF data.t # "dict"
    THEN PyDict([key \in SchemaKeys |->
            IF key = "license_validity" THEN PyBool(FALSE)
            ELSE PyDict([sub \in Subkeys(key) |-> PyBool(FALSE)])])
    ELSE PyDict([key \in SchemaKeys |->
            IF key = "license_validity" THEN Get(data.m, key, PyBool(FALSE))
            ELSE LET got == Get(data.m, key, PyDict(EmptyMap))
                     field_data == IF got.t # "dict" THEN EmptyMap ELSE got.m
                 IN  PyDict([sub \in Subkeys(key) \cup DOMAIN field_data |->
                        Get(field_data, sub, PyBool(FALSE))])])

normalize_comparison(data) ==
    IF data.t # "dict"
    THEN PyDict([key \in SchemaKeys |->
            IF key = "license_validity" THEN PyBool(FALSE)
            ELSE PyDict([sub \in Subkeys(key) |-> PyBool(FALSE)])])
    ELSE PyDict([key \in SchemaKeys |->
            IF key = "license_validity"
            THEN PyBool(Truthy(Get(data.m, key, PyBool(FALSE))))
            ELSE LET got == Get(data.m, key, PyDict(EmptyMap))
                     field_data == IF got.t # "dict" THEN EmptyMap ELSE got.m
                 IN  PyDict([sub \in Subkeys(key) |->
                        PyBool(Truthy(Get(field_data, sub, PyBool(FALSE))))])])

required_fields ==
    << <<"name", {"claim_table"}>>,
       <<"license_no", {"claim_table", "dl_table"}>>,
       <<"address", {"claim_table", "dl_table"}>>,
       <<"car_make", {"claim_car"}>>,
       <<"car_model", {"claim_car"}>>,
       <<"car_color", {"claim_car"}>>,
       <<"damage_details", {"claim_car"}>>,
       <<"license_validity", {}>> >>

\* one pass of the loop body over required_fields[i]: the new all_match
FieldStep(comparison, i, all_match) ==
    LET field        == required_fields[i][1]
        subfields    == required_fields[i][2]
        field_result == Get(comparison.m, field, PyDict(EmptyMap))
    IN  IF field = "license_validity"
        THEN Truthy(IF field_result.t = "dict"
                    THEN Get(field_result.m, "value", PyBool(FALSE))
                    ELSE field_result)
        ELSE IF \E sub \in subfields :
                    Get(field_result.m, sub, NoneV) # PyBool(TRUE)
             THEN FALSE
             ELSE all_match

\* all_match after the passes i .. Len(required_fields)
RECURSIVE AllMatch(_, _, _)
AllMatch(comparison, i, all_match) ==
    IF i > Len(required_fields) THEN all_match
    ELSE AllMatch(comparison, i + 1, FieldStep(comparison, i, all_match))

Decision(comparison) ==
    IF AllMatch(comparison, 1, TRUE) THEN "Claim Accepted" ELSE "Claim Rejected"

\* the four sources compare_and_email puts in its prompt
ComparePrompt(st) ==
    LET table_row == Get(st, "table_row", NoneV) IN
    [DL    |-> st["dl"],
     CLAIM |-> st["claim"],
     CAR   |-> st["car"],
     TABLE |-> IF Truthy(table_row) THEN table_row ELSE PyDict(EmptyMap)]

\* reply, emailReply: raw_text of the two answers, NoneV when the call raised
compare_and_email(st, reply, emailReply, tbl) ==
    IF reply.t # "str" THEN Raised(tbl, <<>>)
    ELSE
    LET span       == FindSpan(reply.s)
        parsed     == IF span = <<>> THEN PyDict(EmptyMap) ELSE json_loads(span)
        comparison == normalize_comparison(
                        IF parsed.t = "dict" THEN parsed
                        ELSE PyDict([raw_output |-> reply]))
    IN  IF emailReply.t # "str" THEN Raised(tbl, <<>>)
        ELSE Returned([comparison |-> comparison,
                       decision   |-> Decision(comparison),
                       email      |-> emailReply,
                       steps      |-> <<"Compared & Emailed">>], tbl, <<>>)

----------------------------------------------------------------------------
(* The graph of run_claim_processing_workflow *)

\* the channels of the graph: the keys of State (WorkflowState adds none)
StateKeys == {"dl_path", "claim_path", "car_path", "car_local", "dl", "claim",
              "car", "steps", "files", "comparison", "decision", "email"}

EntryPoint == "upload"

\* the edges with extract_dl wired past extract_claim
EdgeSkip(node) ==
    CASE node = "upload"        -> "extract_dl"
      [] node = "extract_dl"    -> "extract_car"
      [] node = "extract_claim" -> "extract_car"
      [] node = "extract_car"   -> "compare_email"
      [] node = "compare_email" -> "done"

\* add_edge
Edge(node) ==
    CASE node = "upload"        -> "extract_dl"
      [] node = "extract_dl"    -> "extract_claim"
      [] node = "extract_claim" -> "extract_car"
      [] node = "extract_car"   -> "compare_email"
      [] node = "compare_email" -> "done"

\* MergeUpdate with "steps" declared without its reducer
MergeUpdateOverwrite(st, upd) ==
    LET written == DOMAIN upd \cap StateKeys IN
    [k \in DOMAIN st \cup written |-> IF k \notin written THEN st[k] ELSE upd[k]]

\* how the graph folds a node's partial update into the run state: a key
\* that is no channel is dropped, "steps" is reduced with operator.add,
\* every other key is overwritten
MergeUpdate(st, upd) ==
    LET written == DOMAIN upd \cap StateKeys IN
    [k \in DOMAIN st \cup written |->
        IF k \notin written THEN st[k]
        ELSE IF k = "steps" /\ k \in DOMAIN st THEN st[k] \o upd[k]
        ELSE upd[k]]

\* graph.invoke({"files": files, "steps": []})
InitialState(files) == [files |-> files, steps |-> <<>>]

NoResult == [t |-> "none"]

\* RunNode with a node's exception caught and the graph moving on
RunNodeSwallow(node, out, consumed) ==
    /\ pc = node
    /\ executed' = Append(executed, node)
    /\ io' = consumed
    /\ table' = out.table
    /\ calls' = calls \o out.calls
    /\ state' = IF out.raised THEN state ELSE MergeUpdate(state, out.update)
    /\ updates' = IF out.raised THEN updates ELSE Append(updates, out.update)
    /\ pc' = Edge(node)
    /\ IF Edge(node) = "done"
       THEN result' = PyDict(state') /\ ui' = "success"
       ELSE UNCHANGED <<result, ui>>

\* one node runs: it raises and the run fails, or its update is merged and
\* the graph moves along the node's edge; the run returns after the last
RunNode(node, out, consumed) ==
    /\ pc = node
    /\ executed' = Append(executed, node)
    /\ io' = consumed
    /\ table' = out.table
    /\ calls' = calls \o out.calls
    /\ IF out.raised
       THEN /\ pc' = "failed"
            /\ ui' = "error"
            /\ UNCHANGED <<state, updates, result>>
       ELSE /\ state' = MergeUpdate(state, out.update)
            /\ updates' = Append(updates, out.update)
            /\ pc' = Edge(node)
            /\ IF Edge(node) = "done"
               THEN result' = PyDict(state') /\ ui' = "success"
               ELSE UNCHANGED <<result, ui>>

\* nothing consumed yet
NoIo == [node |-> "none"]

Consumed(node, reply) == [node |-> node, reply |-> reply]

----------------------------------------------------------------------------
(* Actions *)

File(ext) == [t |-> "file", ext |-> ext]

\* the button of the form: a warning unless all three files are given
Submit(uploads) ==
    /\ pc = "idle"
    /\ \E dl_file \in uploads.dl, claim_file \in uploads.claim, car_file \in uploads.car :
        IF dl_file.t = "none" \/ claim_file.t = "none" \/ car_file.t = "none"
        THEN /\ ui' = "warning"
             /\ UNCHANGED <<pc, state, table, result, executed, updates, calls, io>>
        ELSE /\ state' = InitialState(PyDict([dl |-> dl_file, claim |-> claim_file,
                                               car |-> car_file]))
             /\ pc' = EntryPoint
             /\ ui' = "form"
             /\ executed' = <<>>
             /\ updates' = <<>>
             /\ calls' = <<>>
             /\ UNCHANGED <<table, result, io>>

Upload ==
    \E stageOk \in BOOLEAN :
        RunNode("upload", upload_all(state, stageOk, table),
                Consumed("upload", PyBool(stageOk)))

ExtractDl(replies) ==
    \E reply \in replies, fetchOk \in BOOLEAN, mergeOk \in BOOLEAN :
        RunNode("extract_dl", extract_dl(state, reply, fetchOk, mergeOk, table),
                Consumed("extract_dl", reply))

ExtractClaim(replies) ==
    \E reply \in replies :
        RunNode("extract_claim", extract_claim(state, reply, table),
                Consumed("extract_claim", reply))

ExtractCar(replies) ==
    \E reply \in replies :
        RunNode("extract_car", extract_car(state, reply, table),
                Consumed("extract_car", reply))

CompareEmail(replies, emails) ==
    \E reply \in replies, emailReply \in emails :
        RunNode("compare_email", compare_and_email(state, reply, emailReply, table),
                [node |-> "compare_email", reply |-> reply, email |-> emailReply,
                 prompt |-> ComparePrompt(state)])

----------------------------------------------------------------------------
(* What the outside world can hand to a run *)

\* accepted_types of the three file_uploader widgets
AcceptedTypes == {"jpg", "jpeg", "png", "pdf"}

FormUploads ==
    [dl    |-> {NoneV, File("jpg")},
     claim |-> {NoneV, File("pdf")},
     car   |-> {NoneV} \cup {File(e) : e \in AcceptedTypes}]

OneUpload == [dl |-> {File("jpg")}, claim |-> {File("pdf")}, car |-> {File("jpg")}]

\* the shape the document-understanding service gives a field
AsField(v) == PyList(<<PyDict([value |-> v])>>)

Ann == PyStr(<<"Ann">>)

LicenseNumbers ==
    {NoneV, PyInt(7)} \cup {PyStr(s) : s \in SeqsUpTo(LicChars, MaxLicLen)}

\* PREDICT results of the license document; NoneV: the query raised
LicenseReplies ==
    {PyDict([name |-> AsField(Ann), license_no |-> AsField(n)]) : n \in LicenseNumbers}
    \cup {PyDict([license_no |-> PyStr(<<"A">>)]),
          PyDict([name |-> Ann, license_no |-> PyDict([value |-> PyStr(<<"A", " ">>)])]),
          PyDict([name |-> AsField(Ann), license_no |-> PyList(<<>>)]),
          PyDict(EmptyMap),
          NoneV}

FewLicenseReplies ==
    {PyDict([name |-> AsField(Ann), license_no |-> AsField(PyStr(<<"A">>))]),
     PyDict([name |-> AsField(Ann)])}

StoredRow(number) == [FULL_NAME |-> PyStr(<<"Old">>), LICENSE_NUMBER |-> PyStr(number)]

\* contents of the license table when a run starts: rows are keyed by
\* license number, as the merge keeps them
InitTables == {{}, {StoredRow(<<"A">>)}, {StoredRow(<<"A">>), StoredRow(<<"7", "-">>)}}

\* PREDICT results of the claim document; NoneV: the query raised
FewClaimReplies ==
    {NoneV,
     PyDict([description |-> AsField(PyStr(<<"x">>))]),
     PyDict([description |-> AsField(PyStr(<<"x">>)),
             vehicle |-> AsField(PyStr(<<"Color:", " ", "x">>))]),
     PyDict([description |-> PyStr(<<"x">>)])}

OneClaimReply == {PyDict([description |-> AsField(PyStr(<<"x">>))])}

\* a reply in which every member list stands between braces
WellBraced(raw) ==
    \A i \in 1..Len(raw) :
        raw[i].k = "mem" =>
            /\ \E j \in 1..(i - 1) : raw[j].k = "lb"
            /\ \E j \in (i + 1)..Len(raw) : raw[j].k = "rb"

RepliesOver(tokens, n) ==
    {PyStr(raw) : raw \in {x \in SeqsUpTo(tokens, n) : WellBraced(x)}}

CarMembers == Members([color |-> PyStr(<<"x">>)])

\* answers of the vision model; NoneV: invoke_model raised
FewCarReplies == {NoneV, PyStr(<<Prose>>), PyStr(<<LB, CarMembers, RB>>)}
CarReplies == {NoneV} \cup RepliesOver({LB, RB, Prose, CarMembers}, MaxReplyLen)

\* the ten checks of the verdict
Checks ==
    {<<"license_validity", "">>}
    \cup UNION {{<<key, sub>> : sub \in Subkeys(key)} : key \in SchemaKeys}

\* the JSON object that states the checks of f
VerdictOf(f) ==
    [key \in SchemaKeys |->
        IF key = "license_validity" THEN PyBool(f[<<key, "">>])
        ELSE PyDict([sub \in Subkeys(key) |-> PyBool(f[<<key, sub>>])])]

AllTrue == [c \in Checks |-> TRUE]

VerdictReply(f) == PyStr(<<LB, Members(VerdictOf(f)), RB>>)

FewCompareReplies == {NoneV, PyStr(<<Prose>>), VerdictReply(AllTrue)}
CompareReplies ==
    {NoneV} \cup RepliesOver({LB, RB, Prose, Members(VerdictOf(AllTrue))}, MaxReplyLen)
VerdictReplies == {VerdictReply(f) : f \in [Checks -> BOOLEAN]}

FewEmails == {NoneV, PyStr(<<Prose>>)}
OneEmail == {PyStr(<<Prose>>)}

----------------------------------------------------------------------------
(* Specifications *)

InitWith(tables) ==
    /\ pc = "idle"
    /\ state = EmptyMap
    /\ table \in tables
    /\ result = NoResult
    /\ ui = "form"
    /\ executed = <<>>
    /\ updates = <<>>
    /\ calls = <<>>
    /\ io = NoIo

\* the whole workflow, with the license stage's inputs drawn widely
Init == InitWith(InitTables)

Next ==
    \/ Submit(FormUploads)
    \/ Upload
    \/ ExtractDl(LicenseReplies)
    \/ ExtractClaim(FewClaimReplies)
    \/ ExtractCar(FewCarReplies)
    \/ CompareEmail(FewCompareReplies, FewEmails)

Spec == Init /\ [][Next]_vars

\* the whole workflow, with the two model replies drawn widely
InitReply == InitWith({{StoredRow(<<"A">>)}})

NextReply ==
    \/ Submit(OneUpload)
    \/ Upload
    \/ ExtractDl(FewLicenseReplies)
    \/ ExtractClaim(OneClaimReply)
    \/ ExtractCar(CarReplies)
    \/ CompareEmail(CompareReplies, FewEmails)

SpecReply == InitReply /\ [][NextReply]_vars

\* the whole workflow, with every verdict the comparison can state
NextVerdict ==
    \/ Submit(OneUpload)
    \/ Upload
    \/ ExtractDl(FewLicenseReplies)
    \/ ExtractClaim(OneClaimReply)
    \/ ExtractCar(FewCarReplies)
    \/ CompareEmail(VerdictReplies, OneEmail)

SpecVerdict == InitReply /\ [][NextVerdict]_vars

----------------------------------------------------------------------------
(* Properties *)

Nodes == {"upload", "extract_dl", "extract_claim", "extract_car", "compare_email"}

StageOrder == <<"upload", "extract_dl", "extract_claim", "extract_car", "compare_email">>

\* the step log of the run state
Steps == Get(state, "steps", <<>>)

\* the leaf of a normalized verdict that states check c
Leaf(comparison, c) ==
    IF c[1] = "license_validity" THEN comparison.m[c[1]]
    ELSE comparison.m[c[1]].m[c[2]]

\* C1: in compare_and_email the decision is "Claim Accepted" if and only if
\* all ten required checks of the normalized verdict are true (so turning any
\* single check of an all-true verdict to false gives "Claim Rejected").
C1_AcceptedIffAllChecks ==
    pc = "done" =>
        (state["decision"] = "Claim Accepted"
            <=> \A c \in Checks : Leaf(state["comparison"], c) = PyBool(TRUE))

\* a node has raised: it was started and returned no update
SomeNodeRaised == Len(executed) > Len(updates)

\* C2: when a stage raises, no later stage executes and the caller gets a
\* failure, never a (partial) run state.
C2_FailureHaltsRun ==
    /\ [](SomeNodeRaised => pc = "failed" /\ result = NoResult /\ ui = "error")
    /\ [][SomeNodeRaised => UNCHANGED <<executed, updates, calls, table, state, result>>]_vars

C2_Witness ==
    /\ pc = "failed"
    /\ executed = <<"upload", "extract_dl", "extract_claim">>
    /\ Len(updates) = 2
    /\ result = NoResult

\* C3: the stages run once each in the order upload, extract_dl,
\* extract_claim, extract_car, compare_email: the node to run next is the
\* successor of the last one started, every node started before it has
\* returned and has its update merged, and the run ends after compare_email.
C3_FixedOrder ==
    /\ IsPrefix(executed, StageOrder)
    /\ pc \in Nodes =>
            /\ Len(executed) < Len(StageOrder)
            /\ pc = StageOrder[Len(executed) + 1]
            /\ Len(updates) = Len(executed)
            /\ Len(Steps) = Len(executed)
    /\ pc = "done" <=> (executed = StageOrder /\ Len(updates) = Len(StageOrder))

C3_Witness == pc = "done" /\ executed = StageOrder /\ ui = "success"

\* the stage a step-log entry belongs to
StepStage(label) ==
    CASE label = "Uploaded" -> "upload"
      [] label \in {"DL Extracted (Not Stored: Missing License Number)",
                    "Driver's License Extracted & Stored"} -> "license"
      [] label = "Claim Extracted" -> "claim"
      [] label = "Car Analyzed" -> "vehicle"
      [] label = "Compared & Emailed" -> "compare"
      [] OTHER -> "unknown"

\* C4: the step log starts empty, only ever grows at its end, grows by
\* exactly one entry when a stage completes, and a completed run returns
\* five entries in the order upload, license, claim, vehicle, compare.
C4_StepLogAppendOnly ==
    /\ [](pc = EntryPoint => Steps = <<>>)
    /\ [][/\ IsPrefix(Steps, Steps')
          /\ Len(updates') = Len(updates) + 1 => Len(Steps') = Len(Steps) + 1
          /\ Len(updates') = Len(updates) => Steps' = Steps]_vars
    /\ [](pc = "done" =>
            /\ Len(result.m["steps"]) = 5
            /\ [i \in 1..5 |-> StepStage(result.m["steps"][i])]
                 = <<"upload", "license", "claim", "vehicle", "compare">>)

C4_Witness ==
    /\ pc = "done"
    /\ Len(result.m["steps"]) = 5
    /\ result.m["steps"][2] = "DL Extracted (Not Stored: Missing License Number)"

\* C5: when extract_dl finds a stored row, the "table_row" of its partial
\* update is the TABLE source compare_and_email reads.
C5_TableRowReachesCompare ==
    (/\ pc = "done"
     /\ Truthy(updates[2]["table_row"]))
        => io.prompt.TABLE = updates[2]["table_row"]

\* the license stage has just run on a PREDICT result
LicenseStageRan == io.node = "extract_dl" /\ io.reply.t = "dict"

\* the license number the stage extracted
Number == dl_record_full(io.reply).LICENSE_NUMBER

\* a license number that is present and has a character outside [A-Za-z0-9_-]
ViolatesPattern(number) ==
    /\ number.t = "str"
    /\ number.s # <<>>
    /\ \E i \in 1..Len(number.s) : ~WordOrHyphen(number.s[i])

Attempted(op) == \E i \in 1..Len(calls) : calls[i].op = op

C7_OnlyCleanNumbersReachTable ==
    \A i \in 1..Len(calls) : ~ViolatesPattern(calls[i].number)

\* C8 as stated: the merge-upsert is attempted if and only if a license
\* number was extracted.
C8_MergeIffNumberExtracted ==
    LicenseStageRan => (Attempted("merge") <=> Truthy(Number))

\* C8 amended: the merge-upsert is attempted if and only if a license number
\* was extracted and the format check accepts it; when none was extracted
\* the stage makes no table call, returns the extracted record with no
\* historical record, logs "Not Stored: Missing License Number", and the run
\* goes on.
C8_MergeIffNumberAccepted ==
    LicenseStageRan =>
        /\ Attempted("merge") <=> (Truthy(Number) /\ NumberAccepted(Number))
        /\ ~Truthy(Number) =>
                /\ calls = <<>>
                /\ pc = "extract_claim"
                /\ updates[2]["dl"] = PyDict(dl_record_full(io.reply))
                /\ updates[2]["table_row"] = NoneV
                /\ Steps[2] = "DL Extracted (Not Stored: Missing License Number)"

C8_Witness ==
    /\ LicenseStageRan
    /\ ~Truthy(Number)
    /\ pc = "extract_claim"
    /\ calls = <<>>
    /\ Steps[2] = "DL Extracted (Not Stored: Missing License Number)"

\* C9: a failing lookup or merge never aborts the run: the stage completes
\* and returns the license record it returns when persistence works; after a
\* failed lookup the historical record is absent and the merge is still
\* attempted.
C9_PersistenceFailureSwallowed ==
    (LicenseStageRan /\ \E i \in 1..Len(calls) : ~calls[i].ok) =>
        /\ pc = "extract_claim"
        /\ updates[2]["dl"] = PyDict(dl_record_full(io.reply))
        /\ state["dl"] = updates[2]["dl"]
        /\ Steps[2] = "Driver's License Extracted & Stored"
        /\ [i \in 1..Len(calls) |-> calls[i].op] = <<"fetch", "merge">>
        /\ ~calls[1].ok => updates[2]["table_row"] = NoneV
        /\ ~calls[2].ok => \E t0 \in InitTables : table = t0

C9_Witness ==
    /\ LicenseStageRan
    /\ Len(calls) = 2
    /\ ~calls[1].ok
    /\ ~calls[2].ok
    /\ TableFilter(table, Number) # {}
    /\ pc = "extract_claim"

\* a reply with no {...} span, or whose span is no JSON
Unparseable(reply) ==
    /\ reply.t = "str"
    /\ \/ FindSpan(reply.s) = <<>>
       \/ json_loads(FindSpan(reply.s)).t # "dict"

AllFalseVerdict == VerdictOf([c \in Checks |-> FALSE])

\* C10: a model reply with no {...} span, or whose span is no valid JSON,
\* aborts no stage: extract_car completes with {"raw_output": reply};
\* compare_and_email gets the all-false verdict, decides "Claim Rejected"
\* and goes on to the email.
C10_UnparseableReplyDegrades ==
    /\ (io.node = "extract_car" /\ Unparseable(io.reply)) =>
            /\ pc = "compare_email"
            /\ state["car"] = PyDict([raw_output |-> io.reply])
            /\ Steps[4] = "Car Analyzed"
    /\ (io.node = "compare_email" /\ Unparseable(io.reply) /\ io.email.t = "str") =>
            /\ pc = "done"
            /\ state["comparison"] = PyDict(AllFalseVerdict)
            /\ state["decision"] = "Claim Rejected"
            /\ state["email"] = io.email

C10_Witness ==
    /\ pc = "done"
    /\ io.reply = PyStr(<<LB, Prose, RB>>)
    /\ state["car"] = PyDict([raw_output |-> PyStr(<<RB, LB>>)])
    /\ state["decision"] = "Claim Rejected"

----------------------------------------------------------------------------
(* normalize_comparison on its own: a call with one argument and its return *)

\* marks a key that a mapping does not have
Absent == [t |-> "absent"]

\* the dict with the entries of f that are not Absent
DictOf(f) == PyDict([k \in {x \in DOMAIN f : f[x].t # "absent"} |-> f[k]])

\* values a model can put where a boolean is asked for
LeafValues ==
    {PyBool(TRUE), PyBool(FALSE), PyStr(<<"false">>), PyStr(<<>>), PyInt(0),
     PyInt(1), NoneV, PyList(<<>>), PyDict(EmptyMap),
     PyDict([value |-> PyBool(FALSE)]), PyDict([value |-> PyBool(TRUE)])}

\* what the parsed comparison can hold under "name"
NameInputs ==
    {Absent} \cup LeafValues
    \cup {PyDict([claim_table |-> v]) : v \in LeafValues}
    \cup {PyDict([claim_table |-> PyBool(b), match |-> PyBool(TRUE)]) : b \in BOOLEAN}

\* what it can hold under "license_no"
LicenseNoInputs ==
    {Absent, PyStr(<<"true">>),
     PyDict([claim_table |-> PyBool(TRUE)]),
     PyDict([claim_table |-> PyBool(TRUE), dl_table |-> PyBool(TRUE)])}

\* the arguments of normalize_comparison: None, values that are no mapping,
\* and mappings that are empty, partial, or carry extra keys or odd values
NormInputs ==
    {NoneV, PyStr(<<"x">>), PyList(<<>>), PyInt(1)}
    \cup {DictOf([name |-> n, license_no |-> l, license_validity |-> v, raw_output |-> r]) :
            n \in NameInputs, l \in LicenseNoInputs,
            v \in {Absent} \cup LeafValues, r \in {Absent, PyStr(<<"x">>)}}

CallInit(fn, args) ==
    /\ pc = "call"
    /\ io \in {[node |-> fn, arg |-> a] : a \in args}
    /\ state = EmptyMap
    /\ table = {}
    /\ result = NoResult
    /\ ui = "form"
    /\ executed = <<>>
    /\ updates = <<>>
    /\ calls = <<>>

\* the call returns value
Return(value) ==
    /\ pc = "call"
    /\ pc' = "returned"
    /\ result' = value
    /\ UNCHANGED <<state, table, ui, executed, updates, calls, io>>

Normalize == io.node = "normalize_comparison" /\ Return(normalize_comparison(io.arg))

InitNorm == CallInit("normalize_comparison", NormInputs)

SpecNorm == InitNorm /\ [][Normalize]_vars

\* C11: for every argument normalize_comparison returns a mapping with
\* exactly the eight schema keys, each sub-mapping with exactly its schema
\* subkeys, every leaf a boolean; for None or an empty mapping every leaf is
\* false.
C11_NormalizedHasSchemaShape ==
    pc = "returned" =>
        /\ result.t = "dict"
        /\ DOMAIN result.m = SchemaKeys
        /\ result.m["license_validity"].t = "bool"
        /\ \A key \in SchemaKeys \ {"license_validity"} :
                /\ result.m[key].t = "dict"
                /\ DOMAIN result.m[key].m = Subkeys(key)
                /\ \A sub \in Subkeys(key) : result.m[key].m[sub].t = "bool"
        /\ (io.arg.t = "none" \/ (io.arg.t = "dict" /\ DOMAIN io.arg.m = {})) =>
                result = PyDict(AllFalseVerdict)

C11_Witness ==
    /\ pc = "returned"
    /\ io.arg = PyDict([name |-> PyDict([claim_table |-> PyBool(TRUE), match |-> PyBool(TRUE)]),
                        license_validity |-> PyDict([value |-> PyBool(FALSE)]),
                        raw_output |-> PyStr(<<"x">>)])
    /\ DOMAIN result.m["name"].m = {"claim_table"}

\* the value the argument holds for subfield c, Absent when it holds none
GivenLeaf(data, c) ==
    IF data.t # "dict" \/ c[1] \notin DOMAIN data.m THEN Absent
    ELSE IF data.m[c[1]].t # "dict" \/ c[2] \notin DOMAIN data.m[c[1]].m THEN Absent
    ELSE data.m[c[1]].m[c[2]]

\* C12: normalize_comparison sets a subfield to true only when the given
\* value for it is the boolean true; an absent value or one that is no
\* boolean (a string such as "false", a number, a mapping) gives false.
C12_OnlyBooleanTrueIsTrue ==
    pc = "returned" =>
        \A c \in Checks \ {<<"license_validity", "">>} :
            Leaf(result, c) = PyBool(GivenLeaf(io.arg, c) = PyBool(TRUE))

(***************************************************************************)
(* parse_date: datetime.strptime over the five formats, in order           *)
(***************************************************************************)

PyDate(y, m, d) == [t |-> "date", year |-> y, month |-> m, day |-> d]
ValueError == [t |-> "ValueError"]

Digits == <<"0", "1", "2", "3", "4", "5", "6", "7", "8", "9">>
DigitSet == {Digits[n] : n \in 1..10}
DigitVal(c) == (CHOOSE n \in 1..10 : Digits[n] = c) - 1

\* int() of a matched group (a leading space of a %d group is skipped)
RECURSIVE IntOf(_)
IntOf(s) ==
    IF s = <<>> THEN 0
    ELSE LET c == s[Len(s)]
             rest == IntOf(SubSeq(s, 1, Len(s) - 1))
         IN IF c \in DigitSet THEN rest * 10 + DigitVal(c) ELSE rest

\* the regular expression strptime builds for a directive or a literal of
\* the format: its alternatives in order, each a sequence of character classes
TimeRE(directive) ==
    LET nz == DigitSet \ {"0"} IN
    CASE directive = "d" -> << <<{"3"}, {"0", "1"}>>, <<{"1", "2"}, DigitSet>>,
                               <<{"0"}, nz>>, <<nz>>, <<{" "}, nz>> >>
      [] directive = "m" -> << <<{"1"}, {"0", "1", "2"}>>, <<{"0"}, nz>>, <<nz>> >>
      [] directive = "Y" -> << <<DigitSet, DigitSet, DigitSet, DigitSet>> >>
      [] directive = "y" -> << <<DigitSet, DigitSet>> >>
      [] OTHER -> << <<{directive}>> >>

AltMatches(alt, s, pos) ==
    /\ pos + Len(alt) - 1 <= Len(s)
    /\ \A k \in 1..Len(alt) : s[pos + k - 1] \in alt[k]

NoMatch == [ok |-> FALSE]
NoGroups == [d |-> 0, m |-> 0, Y |-> 0, y |-> 0]

\* re.match of the format's expression: the first way, in alternative order
\* with backtracking, in which the whole format matches a prefix of s
RECURSIVE MatchFrom(_, _, _, _, _), TryAlts(_, _, _, _, _, _)
MatchFrom(fmt, k, s, pos, found) ==
    IF k > Len(fmt) THEN [ok |-> TRUE, end |-> pos, groups |-> found]
    ELSE TryAlts(fmt, k, s, pos, found, 1)

TryAlts(fmt, k, s, pos, found, a) ==
    LET alts == TimeRE(fmt[k]) IN
    IF a > Len(alts) THEN NoMatch
    ELSE IF ~AltMatches(alts[a], s, pos) THEN TryAlts(fmt, k, s, pos, found, a + 1)
    ELSE LET n == Len(alts[a])
             bound == IF fmt[k] \in DOMAIN found
                      THEN [found EXCEPT ![fmt[k]] = IntOf(SubSeq(s, pos, pos + n - 1))]
                      ELSE found
             r == MatchFrom(fmt, k + 1, s, pos + n, bound)
         IN IF r.ok THEN r ELSE TryAlts(fmt, k, s, pos, found, a + 1)

IsLeap(y) == (y % 4 = 0 /\ y % 100 # 0) \/ y % 400 = 0
DaysIn(y, m) ==
    IF m = 2 THEN (IF IsLeap(y) THEN 29 ELSE 28)
    ELSE IF m \in {4, 6, 9, 11} THEN 30 ELSE 31
\* the datetime constructor accepts the triple
ValidDate(y, m, d) == y \in 1..9999 /\ m \in 1..12 /\ d \in 1..DaysIn(y, m)

Has(fmt, directive) == \E k \in 1..Len(fmt) : fmt[k] = directive

\* datetime.strptime(value, fmt): ValueError when the format does not match,
\* when unconverted data remains, or when the fields are not a calendar date;
\* a %y year of 00..68 is read as 20yy, of 69..99 as 19yy
strptime(s, fmt) ==
    LET r == MatchFrom(fmt, 1, s, 1, NoGroups) IN
    IF ~r.ok THEN ValueError
    ELSE IF r.end # Len(s) + 1 THEN ValueError
    ELSE LET g == r.groups
             year == IF Has(fmt, "Y") THEN g.Y
                     ELSE IF g.y <= 68 THEN 2000 + g.y ELSE 1900 + g.y
         IN IF ValidDate(year, g.m, g.d) THEN PyDate(year, g.m, g.d) ELSE ValueError

formats_month_first ==
    << <<"m", "/", "d", "/", "Y">>, <<"m", "/", "d", "/", "y">>,
       <<"d", "/", "m", "/", "Y">>, <<"d", "/", "m", "/", "y">>,
       <<"Y", "-", "m", "-", "d">> >>
formats ==
    << <<"d", "/", "m", "/", "Y">>, <<"d", "/", "m", "/", "y">>,
       <<"m", "/", "d", "/", "Y">>, <<"m", "/", "d", "/", "y">>,
       <<"Y", "-", "m", "-", "d">> >>

RECURSIVE TryFormats(_, _)
TryFormats(s, i) ==
    IF i > Len(formats) THEN NoneV
    ELSE LET fmt == formats[i]
             dt == strptime(s, fmt)
         IN IF dt.t = "ValueError" THEN TryFormats(s, i + 1)
            ELSE IF Has(fmt, "y") /\ dt.year < 1930
                 THEN (IF ValidDate(dt.year + 100, dt.month, dt.day)
                       THEN PyDate(dt.year + 100, dt.month, dt.day)
                       ELSE TryFormats(s, i + 1))
                 ELSE dt

parse_date(value) ==
    IF ~Truthy(value) \/ value.t # "str" THEN NoneV
    ELSE TryFormats(Strip(value.s), 1)

\* date texts a<sep>b<sep>y, and values that are no date
DateText(a, sep, b, y) == a \o <<sep>> \o b \o <<sep>> \o y
FieldTexts == {<<"1">>, <<"0", "1">>, <<"5">>, <<"1", "2">>, <<"1", "3">>, <<"2", "9">>,
               <<"3", "0">>, <<"3", "1">>, <<"3", "2">>, <<"0">>, <<"0", "0">>, <<" ", "5">>}
TwoDigitYears == {<<a, b>> : a \in DigitSet, b \in DigitSet}
FourDigitYears == {<<"0", "0", "0", "0">>, <<"0", "0", "0", "1">>, <<"1", "9", "0", "0">>,
                   <<"1", "9", "4", "5">>, <<"2", "0", "0", "0">>, <<"2", "0", "0", "5">>,
                   <<"2", "0", "2", "3">>, <<"2", "0", "2", "4">>}
YearTexts == TwoDigitYears \cup FourDigitYears \cup {<<"5">>, <<"0", "0", "5">>}
SlashDates == {DateText(a, "/", b, y) : a \in FieldTexts, b \in FieldTexts, y \in YearTexts}
IsoDates == {DateText(y, "-", m, d) : y \in FourDigitYears \cup {<<"0", "5">>},
                                      m \in FieldTexts, d \in FieldTexts}
OtherTexts == {<<>>, <<" ">>, <<"x">>, <<"0", "1", "/", "0", "2">>,
               DateText(<<"0", "1">>, "-", <<"0", "2">>, <<"2", "0", "0", "5">>),
               DateText(<<"2", "0", "0", "5">>, "/", <<"0", "1">>, <<"0", "2">>),
               <<" ">> \o DateText(<<"3", "1">>, "/", <<"1", "2">>, <<"9", "9">>) \o <<"\n">>,
               DateText(<<"0", "1">>, "/", <<"0", "2">>, <<"0", "5">>) \o <<"x">>}
DateInputs == {NoneV, PyInt(1), PyList(<<>>)}
                  \cup {PyStr(s) : s \in SlashDates \cup IsoDates \cup OtherTexts}

ParseDate == io.node = "parse_date" /\ Return(parse_date(io.arg))
InitDate == CallInit("parse_date", DateInputs)
SpecDate == InitDate /\ [][ParseDate]_vars

\* the call parsed the text a/b/y
Parsed(a, b, y) == pc = "returned" /\ io.arg = PyStr(DateText(a, "/", b, y))

\* str.split(sep)
RECURSIVE Split(_, _)
Split(s, sep) ==
    IF \A k \in 1..Len(s) : s[k] # sep THEN <<s>>
    ELSE LET i == Min({k \in 1..Len(s) : s[k] = sep})
         IN <<SubSeq(s, 1, i - 1)>> \o Split(SubSeq(s, i + 1, Len(s)), sep)
IsNumeral(s) == s # <<>> /\ \A k \in 1..Len(s) : s[k] \in DigitSet
\* the call that returned was given a slash-separated text of three numerals
SlashCall ==
    /\ pc = "returned" /\ io.node = "parse_date" /\ io.arg.t = "str"
    /\ Len(Split(io.arg.s, "/")) = 3
    /\ \A k \in 1..3 : IsNumeral(Split(io.arg.s, "/")[k])
ArgField(k) == Split(io.arg.s, "/")[k]

\* C13: a two-digit year yy parsed by a two-digit-year format gives the year
\* 2000+yy when yy is in 00..29 and 1900+yy when yy is in 30..99
C13_TwoDigitYearWindowedAt30 ==
    (SlashCall /\ Len(ArgField(3)) = 2 /\ result.t = "date") =>
        result.year = (IF IntOf(ArgField(3)) < 30 THEN 2000 ELSE 1900) + IntOf(ArgField(3))

\* a year text some format accepts: two digits, or four digits from 0001
YearAccepted(y) == Len(y) = 2 \/ (Len(y) = 4 /\ IntOf(y) >= 1)
\* the day-first reading of a/b/y
DayFirst(a, b, y) ==
    strptime(DateText(a, "/", b, y), formats[IF Len(y) = 4 THEN 1 ELSE 2])

\* C14: the formats are tried in the fixed order and the first success is
\* returned: a/b/y with a and b in 1..12 gives day a and month b; the
\* month-first reading is returned only when the day-first reading is not a
\* date; a value matching no format returns None
C14_DayFirstPriority ==
    /\ SlashCall =>
          LET a == ArgField(1)
              b == ArgField(2)
              y == ArgField(3)
          IN /\ (IntOf(a) \in 1..12 /\ IntOf(b) \in 1..12 /\ YearAccepted(y))
                    => (result.t = "date" /\ result.day = IntOf(a) /\ result.month = IntOf(b))
             /\ (result.t = "date" /\ IntOf(a) # IntOf(b)
                   /\ result.month = IntOf(a) /\ result.day = IntOf(b))
                    => DayFirst(a, b, y).t = "ValueError"
    /\ (pc = "returned" /\ io.node = "parse_date") =>
          /\ result.t \in {"date", "none"}
          /\ (\A i \in 1..Len(formats) :
                 io.arg.t # "str" \/ strptime(Strip(io.arg.s), formats[i]).t = "ValueError")
                => result = NoneV
C14_Witness ==
    /\ Parsed(<<"1">>, <<"1", "3">>, <<"2", "0", "0", "5">>)
    /\ result = PyDate(2005, 1, 13)

(***************************************************************************)
(* Several runs against the one license table.  A run's license stage is   *)
(* two steps on the table, the lookup and the merge, each atomic; every     *)
(* variable that belongs to a run becomes a function of the run.            *)
(***************************************************************************)

MaxRuns == 2
Runs == 1..MaxRuns

Bob == PyStr(<<"Bob">>)
ConcReplies ==
    {PyDict([name |-> AsField(nm), license_no |-> AsField(PyStr(n))]) :
        nm \in {Ann, Bob}, n \in {<<"A">>, <<"7", "-">>}}
    \cup {PyDict([name |-> AsField(Ann)]),
          PyDict([name |-> AsField(Ann), license_no |-> AsField(PyStr(<<" ">>))]),
          NoneV}

\* a merge statement as the table saw it
MergeApplied(rec, ok) == [op |-> "merge", rec |-> rec, ok |-> ok]

\* extract_dl up to the lookup: PREDICT, the record, the number check, the
\* guarded fetch; a missing number returns at once, without a merge
Fetch(r) ==
    /\ pc[r] = "extract_dl"
    /\ \E reply \in ConcReplies, fetchOk \in BOOLEAN :
         LET rec    == dl_record_full(reply)
             number == rec.LICENSE_NUMBER
         IN /\ io' = [io EXCEPT ![r] = Consumed("extract_dl", reply)]
            /\ IF reply.t # "dict" THEN
                  /\ pc' = [pc EXCEPT ![r] = "raised"]
                  /\ UNCHANGED result
               ELSE IF ~Truthy(number) THEN
                  /\ pc' = [pc EXCEPT ![r] = "done"]
                  /\ result' = [result EXCEPT ![r] = MissingNumber(rec, table).update.table_row]
               ELSE IF ~NumberAccepted(number) THEN
                  /\ pc' = [pc EXCEPT ![r] = IF InvalidNumber(rec, table).raised
                                              THEN "raised" ELSE "done"]
                  /\ UNCHANGED result
               ELSE
                  /\ pc' = [pc EXCEPT ![r] = "merge"]
                  /\ result' = [result EXCEPT ![r] = FetchRow(table, number, fetchOk).row]
    /\ UNCHANGED <<state, table, ui, executed, updates, calls>>

\* the rest of extract_dl: the guarded merge of the run's own record
Merge(r) ==
    /\ pc[r] = "merge"
    /\ \E mergeOk \in BOOLEAN :
         LET rec == dl_record_full(io[r].reply)
         IN /\ table' = (IF mergeOk THEN TableMerge(table, rec) ELSE table)
            /\ calls' = Append(calls, MergeApplied(rec, mergeOk))
    /\ pc' = [pc EXCEPT ![r] = "done"]
    /\ UNCHANGED <<state, result, ui, executed, updates, io>>

InitConc ==
    /\ pc = [r \in Runs |-> "extract_dl"]
    /\ io = [r \in Runs |-> NoIo]
    /\ result = [r \in Runs |-> NoneV]
    /\ table \in InitTables
    /\ state = EmptyMap
    /\ ui = "form"
    /\ executed = <<>>
    /\ updates = <<>>
    /\ calls = <<>>
NextConc == \E r \in Runs : Fetch(r) \/ Merge(r)
SpecConc == InitConc /\ [][NextConc]_vars

Keys(tbl) == {r.LICENSE_NUMBER : r \in tbl}
\* the successful merges for a number, as positions of the log
MergesOf(number) ==
    {i \in 1..Len(calls) : calls[i].ok /\ calls[i].rec.LICENSE_NUMBER = number}
OneRowPerNumber == \A r1 \in table, r2 \in table : r1.LICENSE_NUMBER = r2.LICENSE_NUMBER => r1 = r2
LastMergeWins ==
    \A row \in table :
        IF MergesOf(row.LICENSE_NUMBER) = {} THEN row \in UNION InitTables
        ELSE row = calls[Max(MergesOf(row.LICENSE_NUMBER))].rec
OnlyMergeWrites ==
    table' # table =>
        /\ \E r \in Runs : pc[r] = "merge" /\ pc'[r] = "done"
        /\ Len(calls') = Len(calls) + 1 /\ calls'[Len(calls')].ok

\* C15: the table is changed only by a merge, a license number once present
\* stays present, and the table holds one row per number, the row of the
\* last merge applied for it, under every interleaving of the runs' steps
C15_TableOnlyGrowsByMerge ==
    /\ [](OneRowPerNumber /\ LastMergeWins)
    /\ [][OnlyMergeWrites /\ Keys(table) \subseteq Keys(table')]_vars
\* both runs read the stored row of "A" before either wrote, then both merged
C15_Witness ==
    /\ Len(calls) = 2 /\ calls[1].ok /\ calls[2].ok
    /\ calls[1].rec.LICENSE_NUMBER = PyStr(<<"A">>)
    /\ calls[2].rec.LICENSE_NUMBER = PyStr(<<"A">>)
    /\ calls[1].rec # calls[2].rec
    /\ result[1] = PyDict(StoredRow(<<"A">>)) /\ result[2] = result[1]
    /\ calls[2].rec \in table

\* C16: in the license stage the lookup of the historical record precedes
\* the merge of the same run: the record returned is a row the table held
\* before the stage ran, it is absent when the table held no row for the
\* number, and it equals the record just merged only if that very row was
\* already stored
C16_FetchBeforeMerge ==
    [][(pc = "extract_dl" /\ pc' = "extract_claim" /\ Truthy(Number')) =>
          LET rec  == dl_record_full(io'.reply)
              row  == updates'[Len(updates')]["table_row"]
              made == SubSeq(calls', Len(calls) + 1, Len(calls'))
          IN /\ [i \in 1..Len(made) |-> made[i].op] = <<"fetch", "merge">>
             /\ TableFilter(table, rec.LICENSE_NUMBER) = {} => row = NoneV
             /\ row # NoneV => row.m \in TableFilter(table, rec.LICENSE_NUMBER)
             /\ row = PyDict(rec) => rec \in table]_vars
\* a number with no row before the run: looked up, then merged
C16_Witness ==
    /\ LicenseStageRan /\ pc = "extract_claim"
    /\ Len(calls) = 2 /\ calls[1].ok /\ calls[2].ok
    /\ updates[2]["table_row"] = NoneV
    /\ dl_record_full(io.reply) \in table

(***************************************************************************)
(* Verdicts whose license_validity is not a bare boolean                   *)
(***************************************************************************)

\* the verdict of f with license_validity given as lv (left out when Absent)
VerdictWith(f, lv) ==
    LET m == VerdictOf(f) IN
    [key \in {k \in SchemaKeys : k # "license_validity" \/ lv.t # "absent"} |->
        IF key = "license_validity" THEN lv ELSE m[key]]
ValidityShapes == {Absent} \cup LeafValues
ValidityReplies ==
    {PyStr(<<LB, Members(VerdictWith(f, lv)), RB>>) :
        f \in {AllTrue, [AllTrue EXCEPT ![<<"name", "claim_table">>] = FALSE]},
        lv \in ValidityShapes}
    \cup {PyStr(<<Prose, LB, Members(VerdictWith(AllTrue, lv)), RB, Prose>>) :
            lv \in ValidityShapes}

NextValidity ==
    \/ Submit(OneUpload)
    \/ Upload
    \/ ExtractDl(FewLicenseReplies)
    \/ ExtractClaim(OneClaimReply)
    \/ ExtractCar(FewCarReplies)
    \/ CompareEmail(ValidityReplies, OneEmail)
SpecValidity == InitReply /\ [][NextValidity]_vars

\* the license_validity member of the verdict the model returned
GivenValidity ==
    LET span == FindSpan(io.reply.s)
    IN Get(span[2].m, "license_validity", Absent)

\* C17: a license_validity that arrives as a mapping with a value key is
\* followed: {"value": false} normalizes to false and the claim is rejected,
\* {"value": true} normalizes to true; any other shape that is not a boolean
\* normalizes to false
C17_NestedValidityFollowsValue ==
    (pc = "done" /\ io.node = "compare_email") =>
        LET lv  == GivenValidity
            out == state["comparison"].m["license_validity"]
        IN /\ lv = PyDict([value |-> PyBool(FALSE)])
                => (out = PyBool(FALSE) /\ state["decision"] = "Claim Rejected")
           /\ lv = PyDict([value |-> PyBool(TRUE)]) => out = PyBool(TRUE)
           /\ (lv.t # "bool" /\ ~(lv.t = "dict" /\ "value" \in DOMAIN lv.m))
                => out = PyBool(FALSE)

(***************************************************************************)
(* The claim stage over the shapes and texts of its two text fields        *)
(***************************************************************************)

MaxTextLen == 3
ClaimTexts == SeqsUpTo({"Color:", " ", ",", "\n", "x"}, MaxTextLen)

\* the shapes a field of the PREDICT result can take: a sequence of
\* mappings with a value key, a mapping with a value key, a scalar, an
\* empty sequence, a null value, or no field at all
FieldShapes(texts) ==
    {AsField(PyStr(t)) : t \in texts}
    \cup {PyDict([value |-> PyStr(t)]) : t \in texts}
    \cup {PyStr(t) : t \in texts}
    \cup {PyList(<<>>), AsField(NoneV), NoneV, PyInt(1), Absent}
FewTexts == {<<>>, <<"x">>, <<"Color:", " ", "x">>}
Red == AsField(PyStr(<<"red">>))
WideClaimReplies ==
    {DictOf([description |-> AsField(PyStr(t)), vehicle |-> v, car_color |-> c]) :
        t \in ClaimTexts, v \in {Absent, AsField(PyStr(<<"Color:", " ", "x">>))},
        c \in {Absent, Red}}
    \cup {DictOf([description |-> d, vehicle |-> v, car_color |-> c]) :
            d \in FieldShapes(FewTexts), v \in FieldShapes(FewTexts), c \in {Absent, Red}}
    \cup {NoneV}

NextClaim ==
    \/ Submit(OneUpload)
    \/ Upload
    \/ ExtractDl(FewLicenseReplies)
    \/ ExtractClaim(WideClaimReplies)
    \/ ExtractCar(FewCarReplies)
    \/ CompareEmail(FewCompareReplies, OneEmail)
SpecClaim == InitReply /\ [][NextClaim]_vars

\* the claim stage has just run on a PREDICT result
ClaimStageRan == io.node = "extract_claim" /\ io.reply.t = "dict"

\* C18: when the PREDICT result already has a car_color field, extract_claim
\* returns it unchanged, whatever the description and vehicle texts say
C18_ColorOnlyFilledWhenMissing ==
    (ClaimStageRan /\ pc = "extract_car" /\ "car_color" \in DOMAIN io.reply.m) =>
        state["claim"].m["car_color"] = io.reply.m["car_color"]

\* C19: once PREDICT has returned, the claim stage completes for every shape
\* of the description and vehicle fields: it returns the claim record and
\* appends its step-log entry
C19_ClaimStageNeverAborts ==
    ClaimStageRan =>
        /\ pc = "extract_car"
        /\ "claim" \in DOMAIN state /\ state["claim"].t = "dict"
        /\ Steps[Len(Steps)] = "Claim Extracted"

====
